---------------------------- MODULE Spec2Model ----------------------------
(***************************************************************************)
(* A model of encrypt.py (saltpack-python): the framed msgpack stream,     *)
(* chunks_with_empty, encrypt and decrypt.                                 *)
(*                                                                         *)
(* Byte strings are sequences of naturals 0..255.  The msgpack encoding is *)
(* modelled byte for byte for the types the program uses.  The NaCl and    *)
(* HMAC primitives are modelled by small deterministic stand-ins with the  *)
(* same shapes (a 16-byte tag in front of a stream-enciphered body, a      *)
(* Diffie-Hellman agreement in a group of order 256, a keyed digest).      *)
(***************************************************************************)
EXTENDS Naturals, Integers, Sequences, FiniteSets, TLC

(***************************************************************************)
(* Bounds of the model.                                                    *)
(***************************************************************************)
MaxMsgLen == 3
MaxChunkSize == 2
MaxGroups == 2
MaxRecipients == 2

(***************************************************************************)
(* Program constants.                                                      *)
(***************************************************************************)
FORMAT_VERSION == 1
KeyLen == 32
MacKeyLen == 16
NoncePrefixLen == 16
RecipientCounterLen == 8
ChunkNonceLen == 24
AuthenticatorLen == 16
MacLen == 16

(***************************************************************************)
(* Byte strings.                                                           *)
(***************************************************************************)
Rep(b, n) == [i \in 1..n |-> b]

Min(a, b) == IF a < b THEN a ELSE b

RECURSIVE Pow(_, _)
Pow(b, e) == IF e = 0 THEN 1 ELSE b * Pow(b, e - 1)

\* x.to_bytes(n, byteorder='big')
\* (the model's numbers stay below 2^31, so the bytes above the low four are 0)
ToBytesBig(x, n) ==
    [i \in 1..n |-> IF n - i > 3 THEN 0 ELSE (x \div Pow(256, n - i)) % 256]

\* message[a:b] of Python, a and b offsets from 0, clamped to the string
Slice(s, a, b) == SubSeq(s, a + 1, Min(b, Len(s)))

RECURSIVE Concat(_)
Concat(ss) == IF ss = <<>> THEN <<>> ELSE Head(ss) \o Concat(Tail(ss))

(***************************************************************************)
(* Values of Python / msgpack, tagged with their type.                     *)
(***************************************************************************)
PyNone == [t |-> "nil", v |-> 0]
PyInt(n) == [t |-> "int", v |-> n]
PyBool(b) == [t |-> "bool", v |-> IF b THEN 1 ELSE 0]
PyBytes(bs) == [t |-> "bin", v |-> bs]
PyStr(cs) == [t |-> "str", v |-> cs]
PyList(xs) == [t |-> "arr", v |-> xs]
PyDict(ps) == [t |-> "map", v |-> ps]

\* a == b of Python: numbers compare by value (True == 1), other types by
\* type and contents
PyEq(a, b) ==
    IF a.t \in {"int", "bool"} /\ b.t \in {"int", "bool"} THEN a.v = b.v
    ELSE a.t = b.t /\ a.v = b.v

isinstance_bytes(a) == a.t = "bin"

\* the map keys of the format, as ASCII
K_version == PyStr(<<118, 101, 114, 115, 105, 111, 110>>)
K_sender == PyStr(<<115, 101, 110, 100, 101, 114>>)
K_nonce == PyStr(<<110, 111, 110, 99, 101>>)
K_recipients == PyStr(<<114, 101, 99, 105, 112, 105, 101, 110, 116, 115>>)
K_encryption_key ==
    PyStr(<<101, 110, 99, 114, 121, 112, 116, 105, 111, 110, 95, 107, 101, 121>>)
K_mac_group == PyStr(<<109, 97, 99, 95, 103, 114, 111, 117, 112>>)
K_mac_key == PyStr(<<109, 97, 99, 95, 107, 101, 121>>)
K_macs == PyStr(<<109, 97, 99, 115>>)
K_chunk == PyStr(<<99, 104, 117, 110, 107>>)

\* d[k] = v of a dict kept in insertion order
RECURSIVE DictSet(_, _, _)
DictSet(ps, k, v) ==
    IF ps = <<>> THEN << <<k, v>> >>
    ELSE IF PyEq(Head(ps)[1], k) THEN << <<Head(ps)[1], v>> >> \o Tail(ps)
    ELSE <<Head(ps)>> \o DictSet(Tail(ps), k, v)

DictHas(d, k) == d.t = "map" /\ \E i \in 1..Len(d.v) : PyEq(d.v[i][1], k)

\* d.get(k): None when the key is absent
DictGet(d, k) ==
    IF DictHas(d, k)
    THEN d.v[CHOOSE i \in 1..Len(d.v) : PyEq(d.v[i][1], k)][2]
    ELSE PyNone

(***************************************************************************)
(* umsgpack.packb, for the types the program packs.                        *)
(***************************************************************************)
PackInt(n) ==
    IF n < 128 THEN <<n>>
    ELSE IF n < 256 THEN <<204, n>>
    ELSE IF n < 65536 THEN <<205, n \div 256, n % 256>>
    ELSE <<206>> \o ToBytesBig(n, 4)

PackBinHeader(n) ==
    IF n < 256 THEN <<196, n>> ELSE <<197, n \div 256, n % 256>>

RECURSIVE packb(_)
RECURSIVE PackAll(_)
RECURSIVE PackPairs(_)
PackAll(xs) == IF xs = <<>> THEN <<>> ELSE packb(Head(xs)) \o PackAll(Tail(xs))

PackPairs(ps) ==
    IF ps = <<>> THEN <<>>
    ELSE packb(Head(ps)[1]) \o packb(Head(ps)[2]) \o PackPairs(Tail(ps))

packb(o) ==
    CASE o.t = "nil" -> <<192>>
      [] o.t = "bool" -> <<194 + o.v>>
      [] o.t = "int" -> PackInt(o.v)
      [] o.t = "bin" -> PackBinHeader(Len(o.v)) \o o.v
      [] o.t = "str" -> <<160 + Len(o.v)>> \o o.v
      [] o.t = "arr" -> <<144 + Len(o.v)>> \o PackAll(o.v)
      [] o.t = "map" -> <<128 + Len(o.v)>> \o PackPairs(o.v)

(***************************************************************************)
(* umsgpack.unpack: one object read from stream s at offset p (bytes       *)
(* already consumed).  The result is [err, obj, pos]; err is "" on         *)
(* success, and pos the offset after the object.                           *)
(***************************************************************************)
UnpackOk(o, p) == [err |-> "", obj |-> o, pos |-> p]
UnpackErr(e, p) == [err |-> e, obj |-> PyNone, pos |-> p]
Available(s, p, n) == p + n <= Len(s)

RECURSIVE BigEndian(_, _, _)
BigEndian(s, p, n) ==
    IF n = 0 THEN 0 ELSE BigEndian(s, p, n - 1) * 256 + s[p + n]

RECURSIVE unpack(_, _)
RECURSIVE UnpackItems(_, _, _)
RECURSIVE UnpackPairs(_, _, _)

UnpackItems(s, p, n) ==
    IF n = 0 THEN [err |-> "", objs |-> <<>>, pos |-> p]
    ELSE LET h == unpack(s, p) IN
         IF h.err # "" THEN [err |-> h.err, objs |-> <<>>, pos |-> h.pos]
         ELSE LET r == UnpackItems(s, h.pos, n - 1) IN
              [err |-> r.err, objs |-> <<h.obj>> \o r.objs, pos |-> r.pos]

\* the pairs of a map, inserted into a dict one after the other
UnpackPairs(s, p, n) ==
    IF n = 0 THEN [err |-> "", objs |-> <<>>, pos |-> p]
    ELSE LET k == unpack(s, p) IN
         IF k.err # "" THEN [err |-> k.err, objs |-> <<>>, pos |-> k.pos]
         ELSE IF k.obj.t \in {"arr", "map"}
              THEN [err |-> "UnhashableKey", objs |-> <<>>, pos |-> k.pos]
         ELSE LET v == unpack(s, k.pos) IN
         IF v.err # "" THEN [err |-> v.err, objs |-> <<>>, pos |-> v.pos]
         ELSE LET r == UnpackPairs(s, v.pos, n - 1) IN
              [err |-> r.err,
               objs |-> IF r.err # "" THEN <<>>
                        ELSE << <<k.obj, v.obj>> >> \o r.objs,
               pos |-> r.pos]

RECURSIVE DictOf(_, _)
DictOf(d, ps) ==
    IF ps = <<>> THEN d ELSE DictOf(DictSet(d, Head(ps)[1], Head(ps)[2]), Tail(ps))

UnpackRaw(s, p, n, tag) ==
    IF ~Available(s, p, n) THEN UnpackErr("InsufficientData", Len(s))
    ELSE UnpackOk([t |-> tag, v |-> SubSeq(s, p + 1, p + n)], p + n)

UnpackUint(s, p, n) ==
    IF ~Available(s, p, n) THEN UnpackErr("InsufficientData", Len(s))
    ELSE UnpackOk(PyInt(BigEndian(s, p, n)), p + n)

UnpackBin(s, p, n) ==
    IF ~Available(s, p, n) THEN UnpackErr("InsufficientData", Len(s))
    ELSE UnpackRaw(s, p + n, BigEndian(s, p, n), "bin")

unpack(s, p) ==
    IF ~Available(s, p, 1) THEN UnpackErr("InsufficientData", Len(s))
    ELSE LET c == s[p + 1] IN
    CASE c < 128 -> UnpackOk(PyInt(c), p + 1)
      [] c >= 128 /\ c < 144 ->
            LET r == UnpackPairs(s, p + 1, c - 128) IN
            IF r.err # "" THEN UnpackErr(r.err, r.pos)
            ELSE UnpackOk(PyDict(DictOf(<<>>, r.objs)), r.pos)
      [] c >= 144 /\ c < 160 ->
            LET r == UnpackItems(s, p + 1, c - 144) IN
            IF r.err # "" THEN UnpackErr(r.err, r.pos)
            ELSE UnpackOk(PyList(r.objs), r.pos)
      [] c >= 160 /\ c < 192 -> UnpackRaw(s, p + 1, c - 160, "str")
      [] c = 192 -> UnpackOk(PyNone, p + 1)
      [] c = 194 -> UnpackOk(PyBool(FALSE), p + 1)
      [] c = 195 -> UnpackOk(PyBool(TRUE), p + 1)
      [] c = 196 -> UnpackBin(s, p + 1, 1)
      [] c = 197 -> UnpackBin(s, p + 1, 2)
      [] c = 204 -> UnpackUint(s, p + 1, 1)
      [] c = 205 -> UnpackUint(s, p + 1, 2)
      [] c = 206 -> UnpackUint(s, p + 1, 4)
      [] OTHER -> UnpackErr("UnsupportedType", p + 1)

(***************************************************************************)
(* The primitives of nacl.bindings and hmac.  Digest stands for the hash   *)
(* inside each of them: two strings of one length that differ in one byte  *)
(* have different digests (the modulus is prime).                                *)
(***************************************************************************)
DigestPrime == 32749
DigestBase == 3

RECURSIVE ModExp(_, _, _)
ModExp(b, e, m) ==
    IF e = 0 THEN 1
    ELSE IF e % 2 = 0 THEN ModExp((b * b) % m, e \div 2, m)
    ELSE (b * ModExp(b, e - 1, m)) % m

\* the polynomial sum of (bs[i] + 1) * DigestBase^(hi - i) over lo..hi, by halves
RECURSIVE PolySum(_, _, _)
PolySum(bs, lo, hi) ==
    IF lo > hi THEN 0
    ELSE IF lo = hi THEN bs[lo] + 1
    ELSE LET mid == (lo + hi) \div 2 IN
         (PolySum(bs, lo, mid) * ModExp(DigestBase, hi - mid, DigestPrime)
            + PolySum(bs, mid + 1, hi)) % DigestPrime

Digest(bs) ==
    ((Len(bs) + 7) * ModExp(DigestBase, Len(bs), DigestPrime)
        + PolySum(bs, 1, Len(bs))) % DigestPrime

\* n bytes that determine the digest d
Expand(d, n) ==
    [j \in 1..n |-> IF j % 2 = 1 THEN (d + j) % 256 ELSE ((d \div 256) + j) % 256]

GroupPrime == 257
GroupBase == 3

\* the scalar of a private key: little-endian, clamped (low three bits
\* cleared), taken modulo the order of the group, 256
Scalar(sk) == sk[1] - (sk[1] % 8)

PointBytes(v) == <<v % 256, v \div 256>> \o Rep(0, KeyLen - 2)
PointOf(pk) == (pk[1] + 256 * pk[2]) % GroupPrime

crypto_scalarmult_base(sk) == PointBytes(ModExp(GroupBase, Scalar(sk), GroupPrime))

crypto_scalarmult(sk, pk) == PointBytes(ModExp(PointOf(pk), Scalar(sk), GroupPrime))

\* the key crypto_box derives from the two parties' keys
crypto_box_beforenm(pk, sk) ==
    Expand(Digest(crypto_scalarmult(sk, pk) \o <<98, 111, 120>>), KeyLen)

\* the key stream of (key, nonce): byte i is (seed + 37 * i) % 256
KeyStreamSeed(key, nonce) == Digest(key \o nonce)

StreamAdd(bs, seed) == [i \in 1..Len(bs) |-> (bs[i] + seed + 37 * i) % 256]

StreamSub(bs, seed) ==
    [i \in 1..Len(bs) |-> (bs[i] + 256 - ((seed + 37 * i) % 256)) % 256]

SecretboxTag(body, nonce, key) ==
    Expand(Digest(key \o nonce \o body), AuthenticatorLen)

crypto_secretbox(message, nonce, key) ==
    LET seed == KeyStreamSeed(key, nonce)
        body == StreamAdd(message, seed)
    IN  SecretboxTag(body, nonce, key) \o body

\* [err, msg]: err is "" and msg the plaintext, or err is "CryptoError"
crypto_secretbox_open(ciphertext, nonce, key) ==
    LET body == SubSeq(ciphertext, AuthenticatorLen + 1, Len(ciphertext))
        seed == KeyStreamSeed(key, nonce)
    IN  IF Len(ciphertext) < AuthenticatorLen
           \/ SubSeq(ciphertext, 1, AuthenticatorLen) # SecretboxTag(body, nonce, key)
        THEN [err |-> "CryptoError", msg |-> <<>>]
        ELSE [err |-> "", msg |-> StreamSub(body, seed)]

crypto_box(message, nonce, sk, pk) ==
    crypto_secretbox(message, nonce, crypto_box_beforenm(pk, sk))

crypto_box_open(ciphertext, nonce, sk, pk) ==
    IF Len(nonce) # ChunkNonceLen \/ Len(pk) # KeyLen \/ Len(sk) # KeyLen
    THEN [err |-> "ValueError", msg |-> <<>>]
    ELSE crypto_secretbox_open(ciphertext, nonce, crypto_box_beforenm(pk, sk))

\* hmac.new(key, digestmod='sha512'); update(data); digest()
hmac_sha512(key, data) == Expand(Digest(key \o <<54>> \o data), 64)

\* hmac.compare_digest
compare_digest(a, b) == a = b

(***************************************************************************)
(* chunks_with_empty                                                       *)
(***************************************************************************)
\* a faulty variant: the loop stops before a last chunk shorter than chunk_size
RECURSIVE ChunkLoopWhole(_, _, _, _)
ChunkLoopWhole(message, chunk_size, chunk_start, chunks) ==
    IF chunk_start + chunk_size <= Len(message)
    THEN ChunkLoopWhole(message, chunk_size, chunk_start + chunk_size,
                        Append(chunks,
                               Slice(message, chunk_start, chunk_start + chunk_size)))
    ELSE chunks

chunks_with_empty_whole_only(message, chunk_size) ==
    Append(ChunkLoopWhole(message, chunk_size, 0, <<>>), <<>>)

RECURSIVE ChunkLoop(_, _, _, _)
ChunkLoop(message, chunk_size, chunk_start, chunks) ==
    IF chunk_start < Len(message)
    THEN ChunkLoop(message, chunk_size, chunk_start + chunk_size,
                   Append(chunks,
                          Slice(message, chunk_start, chunk_start + chunk_size)))
    ELSE chunks

chunks_with_empty(message, chunk_size) ==
    Append(ChunkLoop(message, chunk_size, 0, <<>>), <<>>)

(***************************************************************************)
(* The framing layer.                                                      *)
(***************************************************************************)
\* the stream after write_framed_msgpack(stream, obj)
write_framed_msgpack(stream, obj) ==
    LET msgpack_bytes == packb(obj)
        frame == packb(PyInt(Len(msgpack_bytes)))
    IN  stream \o frame \o msgpack_bytes

\* a faulty variant: the object is unpacked, and the stream then moved to where the
\* frame length says the frame ends
read_framed_msgpack_by_length(s, p) ==
    LET length == unpack(s, p) IN
    IF length.err # "" THEN length
    ELSE IF length.obj.t # "int" THEN UnpackErr("TypeError", length.pos)
    ELSE IF ~Available(s, length.pos, length.obj.v)
    THEN UnpackErr("InsufficientData", Len(s))
    ELSE [unpack(s, length.pos) EXCEPT !.pos = length.pos + length.obj.v]

\* read_framed_msgpack on stream s at offset p: [err, obj, pos].  The frame
\* length is unpacked and discarded; the object is whatever unpacks next.
read_framed_msgpack(s, p) ==
    LET length == unpack(s, p) IN
    IF length.err # "" THEN length ELSE unpack(s, length.pos)

(***************************************************************************)
(* The inputs the model draws.                                             *)
(***************************************************************************)
jack_private == Rep(170, KeyLen)

\* the private keys decrypt is called with; the last two clamp to one
\* scalar, and so have one public key
RecipientPrivates == {Rep(16, KeyLen), Rep(32, KeyLen), Rep(33, KeyLen)}

\* the public keys encrypt is given
RecipientPublics ==
    {crypto_scalarmult_base(Rep(16, KeyLen)), crypto_scalarmult_base(Rep(32, KeyLen))}

SeqsUpTo(S, n) == UNION {[1..k -> S] : k \in 0..n}

RECURSIVE TotalLen(_)
TotalLen(ss) == IF ss = <<>> THEN 0 ELSE Len(Head(ss)) + TotalLen(Tail(ss))

\* recipient_groups: up to MaxGroups groups (empty ones too) of up to
\* MaxRecipients recipients in all, a key possibly listed more than once
GroupLayouts ==
    {l \in SeqsUpTo(SeqsUpTo(RecipientPublics, MaxRecipients), MaxGroups) :
        TotalLen(l) <= MaxRecipients}

default_message == <<84, 104, 101, 32, 77, 97, 103, 105, 99>>

Messages == {SubSeq(default_message, 1, k) : k \in 0..MaxMsgLen}

ChunkSizes == 1..MaxChunkSize

\* what os.urandom returns, per use
EncryptionKeyDraws == {Rep(17, KeyLen)}
MacKeyDraws == {Rep(65, MacKeyLen), Rep(66, MacKeyLen)}
NoncePrefixDraws == {Rep(0, NoncePrefixLen), Rep(90, NoncePrefixLen)}

\* a faulty variant: macs are needed as soon as there is more than one recipient
NeedMacsByRecipients(recipient_groups) == TotalLen(recipient_groups) > 1

\* line 85
NeedMacs(recipient_groups) == Len(recipient_groups) > 1

\* the values os.urandom returns during one encrypt call: one encryption key,
\* one nonce start, and one mac key per group when macs are needed
UrandomTapes(recipient_groups) ==
    [encryption_key : EncryptionKeyDraws,
     recipients_nonce_start : NoncePrefixDraws,
     mac_key : [1..(IF NeedMacs(recipient_groups) THEN Len(recipient_groups)
                    ELSE 0) -> MacKeyDraws]]

(***************************************************************************)
(* The state.                                                              *)
(*   pc      where the run is: in encrypt, between the calls, in decrypt   *)
(*   args    encrypt's arguments                                           *)
(*   urandom what os.urandom returns in this run                           *)
(*   callers the private keys decrypt may be called with                   *)
(*   enc     encrypt's local variables                                     *)
(*   ops     the encryption operations encrypt has made (key and nonce),   *)
(*           and the key dicts and chunk maps it has built, in order       *)
(*   wire    the bytes between encrypt's return and decrypt's call, and    *)
(*           what was done to them on the way                              *)
(*   dec     decrypt's arguments and local variables, and counts of what   *)
(*           it has done                                                   *)
(*   result  what decrypt returned or raised                               *)
(***************************************************************************)
VARIABLES pc, args, urandom, callers, enc, ops, wire, dec, result

vars == <<pc, args, urandom, callers, enc, ops, wire, dec, result>>

NoEnc ==
    [sender_public |-> <<>>, encryption_key |-> <<>>, mac_keys |-> <<>>,
     need_macs |-> FALSE, recipients |-> <<>>, recipients_nonce_start |-> <<>>,
     recipient_num |-> 0, group_num |-> 0, member |-> 0, mac_key |-> <<>>,
     output |-> <<>>, chunks |-> <<>>, chunknum |-> 0]

NoDec ==
    [recipient_private |-> <<>>, pos |-> 0, header |-> PyNone,
     recipient_public |-> <<>>, recipient_num |-> 0, boxed_keys |-> PyNone,
     encryption_key |-> PyNone, mac_group |-> PyNone, mac_key |-> PyNone,
     chunknum |-> 0, output |-> <<>>, chunk_map |-> PyNone, chunk |-> <<>>,
     reads |-> <<>>, box_opens |-> 0, secretbox_opens |-> 0, mac_checks |-> 0]

NoOps == [boxes |-> <<>>, key_dicts |-> <<>>, chunk_maps |-> <<>>]

NoWire == [bytes |-> <<>>, tamper |-> "none", frame |-> 0, at |-> 0]

Running == [status |-> "running", value |-> <<>>, error |-> ""]

InitWith(layouts, messages, chunk_sizes, tapes, privates) ==
    /\ pc = "encrypt"
    /\ args \in [sender_private : {jack_private},
                 recipient_groups : layouts,
                 message : messages,
                 chunk_size : chunk_sizes]
    /\ urandom \in {t \in tapes :
                        t \in UrandomTapes(args.recipient_groups)}
    /\ callers = privates
    /\ enc = NoEnc
    /\ ops = NoOps
    /\ wire = NoWire
    /\ dec = NoDec
    /\ result = Running

Init == InitWith(GroupLayouts, Messages, ChunkSizes,
                 UNION {UrandomTapes(l) : l \in GroupLayouts},
                 RecipientPrivates)

(***************************************************************************)
(* encrypt                                                                 *)
(***************************************************************************)
\* lines 80-90: the setup before the loop over the groups
encrypt_start ==
    /\ pc = "encrypt"
    /\ enc' = [NoEnc EXCEPT
                 !.sender_public = crypto_scalarmult_base(args.sender_private),
                 !.encryption_key = urandom.encryption_key,
                 !.need_macs = NeedMacs(args.recipient_groups),
                 !.recipients_nonce_start = urandom.recipients_nonce_start]
    /\ pc' = "encrypt_groups"
    /\ UNCHANGED <<args, urandom, callers, ops, wire, dec, result>>

\* lines 91-94: the loop enters its next group (enc.group_num counts the
\* groups entered, enc.member the recipients done in the current one)
GroupDone ==
    IF enc.group_num = 0 THEN TRUE
    ELSE enc.member = Len(args.recipient_groups[enc.group_num])

encrypt_group ==
    /\ pc = "encrypt_groups"
    /\ GroupDone
    /\ enc.group_num < Len(args.recipient_groups)
    /\ IF enc.need_macs
       THEN LET mac_key == urandom.mac_key[enc.group_num + 1] IN
            enc' = [enc EXCEPT !.group_num = @ + 1, !.member = 0,
                               !.mac_key = mac_key,
                               !.mac_keys = Append(@, mac_key)]
       ELSE enc' = [enc EXCEPT !.group_num = @ + 1, !.member = 0]
    /\ UNCHANGED <<pc, args, urandom, callers, ops, wire, dec, result>>

\* a faulty variant: the groups are numbered from 1
KeysDictOneBased(need_macs, encryption_key, group_num, mac_key) ==
    IF need_macs
    THEN PyDict(<< <<K_encryption_key, PyBytes(encryption_key)>>,
                   <<K_mac_group, PyInt(group_num + 1)>>,
                   <<K_mac_key, PyBytes(mac_key)>> >>)
    ELSE PyDict(<< <<K_encryption_key, PyBytes(encryption_key)>> >>)

\* lines 96-105; group_num is the index enumerate() gives, from 0
KeysDict(need_macs, encryption_key, group_num, mac_key) ==
    IF need_macs
    THEN PyDict(<< <<K_encryption_key, PyBytes(encryption_key)>>,
                   <<K_mac_group, PyInt(group_num)>>,
                   <<K_mac_key, PyBytes(mac_key)>> >>)
    ELSE PyDict(<< <<K_encryption_key, PyBytes(encryption_key)>> >>)

\* lines 107-108 and 168-169
RecipientNonce(recipients_nonce_start, recipient_num) ==
    recipients_nonce_start \o ToBytesBig(recipient_num, RecipientCounterLen)

\* a faulty variant: the counter is not advanced
NextRecipientNumStuck(recipient_num) == recipient_num

\* line 109
NextRecipientNum(recipient_num) == recipient_num + 1

\* lines 95-115: one recipient of the current group
encrypt_recipient ==
    /\ pc = "encrypt_groups"
    /\ enc.group_num > 0
    /\ enc.member < Len(args.recipient_groups[enc.group_num])
    /\ LET recipient == args.recipient_groups[enc.group_num][enc.member + 1]
           keys == KeysDict(enc.need_macs, enc.encryption_key,
                            enc.group_num - 1, enc.mac_key)
           packed_keys == packb(keys)
           recipient_nonce == RecipientNonce(enc.recipients_nonce_start,
                                             enc.recipient_num)
           boxed_keys == crypto_box(packed_keys, recipient_nonce,
                                    args.sender_private, recipient)
       IN  /\ enc' = [enc EXCEPT
                        !.member = @ + 1,
                        !.recipient_num = NextRecipientNum(@),
                        !.recipients =
                            Append(@, PyList(<<PyBytes(recipient),
                                               PyBytes(boxed_keys)>>))]
           /\ ops' = [ops EXCEPT
                        !.boxes = Append(@,
                            [prim |-> "box",
                             key |-> crypto_box_beforenm(recipient,
                                                         args.sender_private),
                             nonce |-> recipient_nonce]),
                        !.key_dicts = Append(@, keys)]
    /\ UNCHANGED <<pc, args, urandom, callers, wire, dec, result>>

\* lines 116-121
Header(sender_public, recipients_nonce_start, recipients) ==
    PyDict(<< <<K_version, PyInt(FORMAT_VERSION)>>,
              <<K_sender, PyBytes(sender_public)>>,
              <<K_nonce, PyBytes(recipients_nonce_start)>>,
              <<K_recipients, PyList(recipients)>> >>)

\* lines 116-126: the loop over the groups is over; the header is written
\* and the message cut into chunks
encrypt_header ==
    /\ pc = "encrypt_groups"
    /\ GroupDone
    /\ enc.group_num = Len(args.recipient_groups)
    /\ enc' = [enc EXCEPT
                 !.output = write_framed_msgpack(@,
                     Header(enc.sender_public, enc.recipients_nonce_start,
                            enc.recipients)),
                 !.chunks = chunks_with_empty(args.message, args.chunk_size),
                 !.chunknum = 0]
    /\ pc' = "encrypt_chunks"
    /\ UNCHANGED <<args, urandom, callers, ops, wire, dec, result>>

\* a faulty variant: every chunk is boxed with the nonce of index 0
ChunkNonceFixed(chunknum) == ToBytesBig(0, ChunkNonceLen)

\* lines 127 and 184
ChunkNonce(chunknum) == ToBytesBig(chunknum, ChunkNonceLen)

\* lines 135-139 and 191-194, for one mac key
ChunkMac(mac_key, boxed_chunk) ==
    SubSeq(hmac_sha512(mac_key, Slice(boxed_chunk, 0, AuthenticatorLen)),
           1, MacLen)

\* lines 133-139
ChunkMacs(need_macs, mac_keys, boxed_chunk) ==
    IF need_macs
    THEN [g \in 1..Len(mac_keys) |-> PyBytes(ChunkMac(mac_keys[g], boxed_chunk))]
    ELSE <<>>

\* lines 140-143
ChunkMap(macs, boxed_chunk) ==
    PyDict(<< <<K_macs, PyList(macs)>>, <<K_chunk, PyBytes(boxed_chunk)>> >>)

\* lines 126-144: one chunk (enc.chunknum is the index enumerate() gives)
encrypt_chunk ==
    /\ pc = "encrypt_chunks"
    /\ enc.chunknum < Len(enc.chunks)
    /\ LET chunk == enc.chunks[enc.chunknum + 1]
           nonce == ChunkNonce(enc.chunknum)
           boxed_chunk == crypto_secretbox(chunk, nonce, enc.encryption_key)
           chunk_map == ChunkMap(ChunkMacs(enc.need_macs, enc.mac_keys,
                                           boxed_chunk), boxed_chunk)
       IN  /\ enc' = [enc EXCEPT
                        !.output = write_framed_msgpack(@, chunk_map),
                        !.chunknum = @ + 1]
           /\ ops' = [ops EXCEPT
                        !.boxes = Append(@,
                            [prim |-> "secretbox", key |-> enc.encryption_key,
                             nonce |-> nonce]),
                        !.chunk_maps = Append(@, chunk_map)]
    /\ UNCHANGED <<pc, args, urandom, callers, wire, dec, result>>

\* line 146: encrypt returns, and its output is on the way to decrypt
encrypt_return ==
    /\ pc = "encrypt_chunks"
    /\ enc.chunknum = Len(enc.chunks)
    /\ wire' = [NoWire EXCEPT !.bytes = enc.output]
    /\ pc' = "transit"
    /\ UNCHANGED <<args, urandom, callers, enc, ops, dec, result>>

Encrypt ==
    \/ encrypt_start
    \/ encrypt_group
    \/ encrypt_recipient
    \/ encrypt_header
    \/ encrypt_chunk
    \/ encrypt_return

SpecEncrypt == Init /\ [][Encrypt]_vars

(***************************************************************************)
(* decrypt                                                                 *)
(***************************************************************************)
Raised(e) == [status |-> "raised", value |-> <<>>, error |-> e]
Returned(v) == [status |-> "returned", value |-> v, error |-> ""]

\* d[k]: [err, obj]
Subscript(d, k) ==
    IF d.t # "map" THEN [err |-> "TypeError", obj |-> PyNone]
    ELSE IF ~DictHas(d, k) THEN [err |-> "KeyError", obj |-> PyNone]
    ELSE [err |-> "", obj |-> DictGet(d, k)]

\* what one call of read_framed_msgpack at offset p did: where it started,
\* the frame length it unpacked, where the object began, the object it
\* returned, where it left the stream
ReadRecord(s, p) ==
    LET length == unpack(s, p)
        r == read_framed_msgpack(s, p)
    IN  [start |-> p, length |-> length.obj, body |-> length.pos,
         obj |-> r.obj, pos |-> r.pos, err |-> r.err]

\* line 150: decrypt is called on the bytes that arrived
decrypt_start ==
    /\ pc = "transit"
    /\ \E recipient_private \in callers :
          dec' = [NoDec EXCEPT !.recipient_private = recipient_private]
    /\ pc' = "decrypt_header"
    /\ UNCHANGED <<args, urandom, callers, enc, ops, wire, result>>

\* line 154: assert version == 1
VersionOk(version) == PyEq(version, PyInt(1))

\* lines 153-157: "" when the header passes, else the exception
HeaderError(header) ==
    IF header.t # "map" THEN "TypeError"
    ELSE IF ~DictHas(header, K_version) THEN "KeyError"
    ELSE IF ~VersionOk(DictGet(header, K_version)) THEN "AssertionError"
    ELSE IF ~(DictHas(header, K_sender) /\ DictHas(header, K_nonce)
              /\ DictHas(header, K_recipients)) THEN "KeyError"
    ELSE ""

\* lines 150-157
decrypt_header ==
    /\ pc = "decrypt_header"
    /\ LET r == read_framed_msgpack(wire.bytes, dec.pos)
           e == IF r.err # "" THEN r.err ELSE HeaderError(r.obj)
       IN  /\ dec' = [dec EXCEPT
                        !.pos = r.pos,
                        !.reads = Append(@, ReadRecord(wire.bytes, dec.pos)),
                        !.header = r.obj]
           /\ IF e # "" THEN /\ result' = Raised(e)
                             /\ pc' = "raised"
              ELSE /\ pc' = "decrypt_find"
                   /\ UNCHANGED result
    /\ UNCHANGED <<args, urandom, callers, enc, ops, wire>>

\* a faulty variant: the loop has no else: when no entry matches, the code goes on
\* with the variables the loop left behind
RECURSIVE ScanRecipientsNoElse(_, _, _)
ScanRecipientsNoElse(recipients, recipient_public, recipient_num) ==
    IF Len(recipients) = 0
    THEN [err |-> "UnboundLocalError", recipient_num |-> 0, boxed_keys |-> PyNone]
    ELSE IF recipient_num >= Len(recipients)
    THEN [err |-> "", recipient_num |-> recipient_num,
          boxed_keys |-> recipients[Len(recipients)].v[2]]
    ELSE IF PyEq(recipients[recipient_num + 1].v[1], PyBytes(recipient_public))
    THEN [err |-> "", recipient_num |-> recipient_num,
          boxed_keys |-> recipients[recipient_num + 1].v[2]]
    ELSE ScanRecipientsNoElse(recipients, recipient_public, recipient_num + 1)

\* a faulty variant: the scan keeps the last entry that matches, not the first
ScanRecipientsLast(recipients, recipient_public, recipient_num) ==
    LET matches == {i \in recipient_num..(Len(recipients) - 1) :
                       PyEq(recipients[i + 1].v[1], PyBytes(recipient_public))}
    IN  IF matches = {}
        THEN [err |-> "recipient key not found",
              recipient_num |-> Len(recipients), boxed_keys |-> PyNone]
        ELSE LET last == CHOOSE i \in matches : \A j \in matches : j <= i
             IN  [err |-> "", recipient_num |-> last,
                  boxed_keys |-> recipients[last + 1].v[2]]

\* lines 160-166: the scan of the recipients list from position
\* recipient_num on: [err, recipient_num, boxed_keys]
RECURSIVE ScanRecipients(_, _, _)
ScanRecipients(recipients, recipient_public, recipient_num) ==
    IF recipient_num >= Len(recipients)
    THEN [err |-> "recipient key not found", recipient_num |-> recipient_num,
          boxed_keys |-> PyNone]
    ELSE LET entry == recipients[recipient_num + 1] IN
         IF entry.t # "arr"
         THEN [err |-> "TypeError", recipient_num |-> recipient_num,
               boxed_keys |-> PyNone]
         ELSE IF Len(entry.v) # 2
         THEN [err |-> "ValueError", recipient_num |-> recipient_num,
               boxed_keys |-> PyNone]
         ELSE IF PyEq(entry.v[1], PyBytes(recipient_public))
         THEN [err |-> "", recipient_num |-> recipient_num,
               boxed_keys |-> entry.v[2]]
         ELSE ScanRecipients(recipients, recipient_public, recipient_num + 1)

\* lines 158-166
decrypt_find_recipient ==
    /\ pc = "decrypt_find"
    /\ LET recipients == DictGet(dec.header, K_recipients)
           recipient_public == crypto_scalarmult_base(dec.recipient_private)
           f == IF recipients.t # "arr"
                THEN [err |-> "TypeError", recipient_num |-> 0,
                      boxed_keys |-> PyNone]
                ELSE ScanRecipients(recipients.v, recipient_public, 0)
       IN  /\ dec' = [dec EXCEPT !.recipient_public = recipient_public,
                                 !.recipient_num = f.recipient_num,
                                 !.boxed_keys = f.boxed_keys]
           /\ IF f.err # "" THEN /\ result' = Raised(f.err)
                                 /\ pc' = "raised"
              ELSE /\ pc' = "decrypt_unbox"
                   /\ UNCHANGED result
    /\ UNCHANGED <<args, urandom, callers, enc, ops, wire>>

\* lines 168-179: [err, encryption_key, mac_group, mac_key]
UnboxKeys(header, boxed_keys, recipient_num, recipient_private) ==
    LET sender_public == DictGet(header, K_sender)
        recipients_nonce_start == DictGet(header, K_nonce)
        none == [err |-> "", encryption_key |-> PyNone, mac_group |-> PyNone,
                 mac_key |-> PyNone]
    IN  IF recipients_nonce_start.t # "bin" \/ sender_public.t # "bin"
           \/ boxed_keys.t # "bin"
        THEN [none EXCEPT !.err = "TypeError"]
        ELSE
        LET packed_keys == crypto_box_open(
                boxed_keys.v,
                RecipientNonce(recipients_nonce_start.v, recipient_num),
                recipient_private, sender_public.v)
        IN  IF packed_keys.err # "" THEN [none EXCEPT !.err = packed_keys.err]
            ELSE
            LET keys == unpack(packed_keys.msg, 0) IN
            IF keys.err # "" THEN [none EXCEPT !.err = keys.err]
            ELSE IF Subscript(keys.obj, K_encryption_key).err # ""
            THEN [none EXCEPT !.err = Subscript(keys.obj, K_encryption_key).err]
            ELSE [err |-> "",
                  encryption_key |-> DictGet(keys.obj, K_encryption_key),
                  mac_group |-> DictGet(keys.obj, K_mac_group),
                  mac_key |-> DictGet(keys.obj, K_mac_key)]

\* lines 167-182
decrypt_unbox_keys ==
    /\ pc = "decrypt_unbox"
    /\ LET k == UnboxKeys(dec.header, dec.boxed_keys, dec.recipient_num,
                          dec.recipient_private)
       IN  /\ dec' = [dec EXCEPT !.encryption_key = k.encryption_key,
                                 !.mac_group = k.mac_group,
                                 !.mac_key = k.mac_key,
                                 !.box_opens = @ + 1,
                                 !.chunknum = 0,
                                 !.output = <<>>]
           /\ IF k.err # "" THEN /\ result' = Raised(k.err)
                                 /\ pc' = "raised"
              ELSE /\ pc' = "AwaitingChunk"
                   /\ UNCHANGED result
    /\ UNCHANGED <<args, urandom, callers, enc, ops, wire>>

\* lines 185-187: "" when the chunk map has both fields, else the exception
ChunkMapError(chunk_map) ==
    IF Subscript(chunk_map, K_macs).err # ""
    THEN Subscript(chunk_map, K_macs).err
    ELSE Subscript(chunk_map, K_chunk).err

\* a faulty variant: a stream that ends where a frame would begin is taken for the
\* end of the message
decrypt_read_chunk_eof_ends ==
    /\ pc = "AwaitingChunk"
    /\ LET r == read_framed_msgpack(wire.bytes, dec.pos)
           e == IF r.err # "" THEN r.err ELSE ChunkMapError(r.obj)
       IN  /\ dec' = [dec EXCEPT
                        !.pos = r.pos,
                        !.reads = Append(@, ReadRecord(wire.bytes, dec.pos)),
                        !.chunk_map = r.obj]
           /\ IF e # "" /\ dec.pos = Len(wire.bytes)
              THEN /\ pc' = "Done"
                   /\ UNCHANGED result
              ELSE IF e # "" THEN /\ result' = Raised(e)
                                  /\ pc' = "raised"
              ELSE /\ pc' = "Verifying"
                   /\ UNCHANGED result
    /\ UNCHANGED <<args, urandom, callers, enc, ops, wire>>

\* a faulty variant: where the stream ends short of a frame, the read goes
\* back to the first chunk frame and the loop begins again
decrypt_read_chunk_rewinds ==
    /\ pc = "AwaitingChunk"
    /\ LET r == read_framed_msgpack(wire.bytes, dec.pos)
           e == IF r.err # "" THEN r.err ELSE ChunkMapError(r.obj)
       IN  IF r.err = "InsufficientData" /\ dec.chunknum > 0
           THEN /\ dec' = [dec EXCEPT
                             !.pos = dec.reads[1].pos,
                             !.reads = <<dec.reads[1]>>,
                             !.chunk_map = NoDec.chunk_map,
                             !.chunk = NoDec.chunk,
                             !.chunknum = 0,
                             !.output = <<>>,
                             !.mac_checks = 0,
                             !.secretbox_opens = 0]
                /\ UNCHANGED <<pc, result>>
           ELSE /\ dec' = [dec EXCEPT
                             !.pos = r.pos,
                             !.reads = Append(@, ReadRecord(wire.bytes, dec.pos)),
                             !.chunk_map = r.obj]
                /\ IF e # "" THEN /\ result' = Raised(e)
                                  /\ pc' = "raised"
                   ELSE /\ pc' = "Verifying"
                        /\ UNCHANGED result
    /\ UNCHANGED <<args, urandom, callers, enc, ops, wire>>

\* lines 184-187
decrypt_read_chunk ==
    /\ pc = "AwaitingChunk"
    /\ LET r == read_framed_msgpack(wire.bytes, dec.pos)
           e == IF r.err # "" THEN r.err ELSE ChunkMapError(r.obj)
       IN  /\ dec' = [dec EXCEPT
                        !.pos = r.pos,
                        !.reads = Append(@, ReadRecord(wire.bytes, dec.pos)),
                        !.chunk_map = r.obj]
           /\ IF e # "" THEN /\ result' = Raised(e)
                             /\ pc' = "raised"
              ELSE /\ pc' = "Verifying"
                   /\ UNCHANGED result
    /\ UNCHANGED <<args, urandom, callers, enc, ops, wire>>

\* a faulty variant: the MAC is not checked
MacErrorUnchecked(chunk_map, mac_group, mac_key) == ""

\* lines 189-196: "" when the chunk passes the check of the MAC (or the
\* recipient has no mac key), else the exception
MacError(chunk_map, mac_group, mac_key) ==
    LET macs == DictGet(chunk_map, K_macs)
        boxed_chunk == DictGet(chunk_map, K_chunk)
    IN  IF mac_key.t = "nil" THEN ""
        ELSE IF macs.t # "arr" \/ mac_group.t # "int" THEN "TypeError"
        ELSE IF mac_group.v >= Len(macs.v) THEN "IndexError"
        ELSE IF boxed_chunk.t # "bin" \/ mac_key.t # "bin"
                \/ macs.v[mac_group.v + 1].t # "bin" THEN "TypeError"
        ELSE IF ~compare_digest(macs.v[mac_group.v + 1].v,
                                ChunkMac(mac_key.v, boxed_chunk.v))
        THEN "MAC mismatch!"
        ELSE ""

\* a faulty variant: a chunk whose MAC does not match is skipped, and the loop
\* goes on with the next frame
decrypt_check_mac_skips ==
    /\ pc = "Verifying"
    /\ LET e == MacError(dec.chunk_map, dec.mac_group, dec.mac_key) IN
       /\ dec' = [dec EXCEPT
                    !.mac_checks = IF dec.mac_key.t = "nil" THEN @ ELSE @ + 1]
       /\ pc' = IF e # "" THEN "AwaitingChunk" ELSE "Decrypting"
       /\ UNCHANGED result
    /\ UNCHANGED <<args, urandom, callers, enc, ops, wire>>

\* lines 188-196
decrypt_check_mac ==
    /\ pc = "Verifying"
    /\ LET e == MacError(dec.chunk_map, dec.mac_group, dec.mac_key) IN
       /\ dec' = [dec EXCEPT
                    !.mac_checks = IF dec.mac_key.t = "nil" THEN @ ELSE @ + 1]
       /\ IF e # "" THEN /\ result' = Raised(e)
                         /\ pc' = "raised"
          ELSE /\ pc' = "Decrypting"
               /\ UNCHANGED result
    /\ UNCHANGED <<args, urandom, callers, enc, ops, wire>>

\* lines 198-201: [err, msg]
OpenChunk(chunk_map, chunknum, encryption_key) ==
    LET boxed_chunk == DictGet(chunk_map, K_chunk) IN
    IF boxed_chunk.t # "bin" \/ encryption_key.t # "bin"
    THEN [err |-> "TypeError", msg |-> <<>>]
    ELSE IF Len(encryption_key.v) # KeyLen
    THEN [err |-> "ValueError", msg |-> <<>>]
    ELSE crypto_secretbox_open(boxed_chunk.v, ChunkNonce(chunknum),
                               encryption_key.v)

\* a faulty variant: the chunk, a bytes, is compared with the empty str: never equal
IsTerminatorStr(chunk) == FALSE

\* line 203
IsTerminator(chunk) == chunk = <<>>

\* lines 197-206
decrypt_open_chunk ==
    /\ pc = "Decrypting"
    /\ LET o == OpenChunk(dec.chunk_map, dec.chunknum, dec.encryption_key) IN
       IF o.err # ""
       THEN /\ dec' = [dec EXCEPT !.secretbox_opens = @ + 1]
            /\ result' = Raised(o.err)
            /\ pc' = "raised"
       ELSE IF IsTerminator(o.msg)
       THEN /\ dec' = [dec EXCEPT !.secretbox_opens = @ + 1, !.chunk = o.msg]
            /\ pc' = "Done"
            /\ UNCHANGED result
       ELSE /\ dec' = [dec EXCEPT !.secretbox_opens = @ + 1,
                                  !.chunk = o.msg,
                                  !.output = @ \o o.msg,
                                  !.chunknum = @ + 1]
            /\ pc' = "AwaitingChunk"
            /\ UNCHANGED result
    /\ UNCHANGED <<args, urandom, callers, enc, ops, wire>>

\* line 207
decrypt_return ==
    /\ pc = "Done"
    /\ result' = Returned(dec.output)
    /\ pc' = "returned"
    /\ UNCHANGED <<args, urandom, callers, enc, ops, wire, dec>>

Decrypt ==
    \/ decrypt_start
    \/ decrypt_header
    \/ decrypt_find_recipient
    \/ decrypt_unbox_keys
    \/ decrypt_read_chunk
    \/ decrypt_check_mac
    \/ decrypt_open_chunk
    \/ decrypt_return

\* encrypt, and decrypt of what encrypt returned
Next == Encrypt \/ Decrypt

Spec == Init /\ [][Next]_vars

(***************************************************************************)
(* What can happen to the bytes between encrypt and decrypt.  One change   *)
(* is made per run; wire.tamper names it.                                  *)
(***************************************************************************)
\* the offsets at which the frames of the stream s end, from offset p on
RECURSIVE FrameEnds(_, _)
FrameEnds(s, p) ==
    IF p >= Len(s) THEN <<>>
    ELSE LET r == read_framed_msgpack(s, p) IN
         IF r.err # "" THEN <<>> ELSE <<r.pos>> \o FrameEnds(s, r.pos)

FrameStart(ends, k) == IF k = 1 THEN 0 ELSE ends[k - 1]

\* the byte b with the bit of weight m flipped
FlipBit(b, m) == IF (b \div m) % 2 = 1 THEN b - m ELSE b + m

FlipMasks == {1, 128}

Untouched == pc = "transit" /\ wire.tamper = "none"

\* one bit of the "chunk" field of chunk c is flipped; the field is the
\* last thing in its frame, and wire.at the offset of the byte in it
flip_chunk_bit ==
    /\ Untouched
    /\ LET ends == FrameEnds(wire.bytes, 0) IN
       \E c \in 1..Len(ops.chunk_maps) :
          LET field == DictGet(ops.chunk_maps[c], K_chunk).v IN
          \E at \in 0..(Len(field) - 1), m \in FlipMasks :
             LET i == ends[c + 1] - Len(field) + at + 1 IN
             wire' = [bytes |-> [wire.bytes EXCEPT ![i] = FlipBit(@, m)],
                      tamper |-> "flip", frame |-> c, at |-> at]
    /\ UNCHANGED <<pc, args, urandom, callers, enc, ops, dec, result>>

\* the stream is cut short: any proper prefix of it arrives
truncate ==
    /\ Untouched
    /\ \E n \in 0..(Len(wire.bytes) - 1) :
          wire' = [bytes |-> SubSeq(wire.bytes, 1, n),
                   tamper |-> "truncate", frame |-> 0, at |-> n]
    /\ UNCHANGED <<pc, args, urandom, callers, enc, ops, dec, result>>

\* what may follow the terminator frame: a lone frame length, bytes that
\* are no msgpack, the frame of the first chunk again, a frame of an integer
Trailers(s) ==
    LET ends == FrameEnds(s, 0) IN
    {<<0>>, <<193, 7>>, SubSeq(s, ends[1] + 1, ends[2]),
     write_framed_msgpack(<<>>, PyInt(5))}

append_trailer ==
    /\ Untouched
    /\ \E t \in Trailers(wire.bytes) :
          wire' = [bytes |-> wire.bytes \o t,
                   tamper |-> "append", frame |-> 0, at |-> Len(wire.bytes)]
    /\ UNCHANGED <<pc, args, urandom, callers, enc, ops, dec, result>>

\* the values a header's version field is replaced by
VersionForgeries == {PyInt(0), PyInt(2), PyBool(TRUE), PyNone}

\* the header frame is replaced by one that differs in its version field
forge_version ==
    /\ Untouched
    /\ LET ends == FrameEnds(wire.bytes, 0)
           header == read_framed_msgpack(wire.bytes, 0).obj
       IN  \E version \in VersionForgeries :
              wire' = [bytes |->
                          write_framed_msgpack(<<>>,
                              PyDict(DictSet(header.v, K_version, version)))
                          \o SubSeq(wire.bytes, ends[1] + 1, Len(wire.bytes)),
                       tamper |-> "version", frame |-> 1, at |-> 0]
    /\ UNCHANGED <<pc, args, urandom, callers, enc, ops, dec, result>>

\* frame k gets another frame length in front of the same object: 0, or
\* one more than the object's size
reframe ==
    /\ Untouched
    /\ LET ends == FrameEnds(wire.bytes, 0) IN
       \E k \in 1..Len(ends), wrong \in {0, 1} :
          LET start == FrameStart(ends, k)
              body == unpack(wire.bytes, start).pos
              size == ends[k] - body
              length == IF wrong = 0 THEN 0 ELSE size + 1
          IN  wire' = [bytes |-> SubSeq(wire.bytes, 1, start)
                                  \o packb(PyInt(length))
                                  \o SubSeq(wire.bytes, body + 1, Len(wire.bytes)),
                       tamper |-> "reframe", frame |-> k, at |-> length]
    /\ UNCHANGED <<pc, args, urandom, callers, enc, ops, dec, result>>

Tamper ==
    \/ flip_chunk_bit
    \/ truncate
    \/ append_trailer
    \/ forge_version
    \/ reframe

\* the inputs of the runs in which the bytes are changed on the way: one
\* group or two, the empty message and the longest, both recipients calling
TamperLayouts ==
    {l \in GroupLayouts : /\ Len(l) >= 1
                          /\ \A g \in 1..Len(l) : Len(l[g]) = 1
                          /\ \A g \in 1..Len(l) :
                                l[g][1] = crypto_scalarmult_base(Rep(16 * g, KeyLen))}

TamperMessages == {<<>>, SubSeq(default_message, 1, MaxMsgLen)}

TamperTapes(recipient_groups) ==
    {t \in UrandomTapes(recipient_groups) :
        /\ t.recipients_nonce_start = Rep(90, NoncePrefixLen)
        /\ \A g \in DOMAIN t.mac_key : t.mac_key[g] = Rep(64 + g, MacKeyLen)}

TamperCallers == {Rep(16, KeyLen), Rep(32, KeyLen)}

InitTamper == InitWith(TamperLayouts, TamperMessages, ChunkSizes,
                       UNION {TamperTapes(l) : l \in TamperLayouts},
                       TamperCallers)

NextTamper == Encrypt \/ Tamper \/ Decrypt

SpecTamper == InitTamper /\ [][NextTamper]_vars

\* lines 183-207: where the control is in the chunk loop and at the return
\* after it
LoopPcs == {"AwaitingChunk", "Verifying", "Decrypting", "Done"}

\* the control leaves the statement it is at, for another of the loop, for
\* the return, or with an exception
loop_goes_on ==
    /\ pc \in LoopPcs
    /\ pc' \in LoopPcs \cup {"returned", "raised"}

\* the loop reads from a BytesIO and calls pure functions: it has nothing
\* to wait for, and the statement the control is at is executed
SpecTamperFair == SpecTamper /\ WF_pc(loop_goes_on)

(***************************************************************************)
(* A chunk frame is replaced by one a recipient of the message made.  The  *)
(* recipient of group wire.at holds encryption_key and the mac key of its  *)
(* own group: it calls crypto_secretbox on plaintexts of its choice, with  *)
(* the chunk's nonce, and keeps a result that differs from the sender's    *)
(* chunk and begins with the same 16 bytes.  The macs list is the sender's.*)
(***************************************************************************)
PlaintextDeltas == {-3, -1, 1, 3}

\* the plaintexts the recipient tries: the chunk with two adjacent bytes
\* changed
ForgedPlaintexts(chunk) ==
    {[chunk EXCEPT ![t[1]] = @ + t[2], ![t[1] + 1] = @ + t[3]] :
        t \in {u \in (1..(Len(chunk) - 1)) \X PlaintextDeltas \X PlaintextDeltas :
                 /\ chunk[u[1]] + u[2] \in 0..255
                 /\ chunk[u[1] + 1] + u[3] \in 0..255}}

\* the stream with the object of frame k replaced by obj
ReplaceFrame(s, k, obj) ==
    LET ends == FrameEnds(s, 0) IN
    write_framed_msgpack(SubSeq(s, 1, FrameStart(ends, k)), obj)
        \o SubSeq(s, ends[k] + 1, Len(s))

forge_chunk ==
    /\ Untouched
    /\ enc.need_macs
    /\ \E c \in 1..Len(ops.chunk_maps), forger \in 1..Len(args.recipient_groups) :
          LET boxed_chunk == DictGet(ops.chunk_maps[c], K_chunk).v
              macs == DictGet(ops.chunk_maps[c], K_macs)
          IN  \E chunk \in ForgedPlaintexts(enc.chunks[c]) :
                 LET forged == crypto_secretbox(chunk, ChunkNonce(c - 1),
                                                enc.encryption_key)
                 IN  /\ forged # boxed_chunk
                     /\ SubSeq(forged, 1, AuthenticatorLen)
                           = SubSeq(boxed_chunk, 1, AuthenticatorLen)
                     /\ wire' = [bytes |-> ReplaceFrame(wire.bytes, c + 1,
                                              ChunkMap(macs.v, forged)),
                                 tamper |-> "forge", frame |-> c, at |-> forger]
    /\ UNCHANGED <<pc, args, urandom, callers, enc, ops, dec, result>>

\* the frames of the stream s, each with its frame length in front
Frames(s) ==
    LET ends == FrameEnds(s, 0) IN
    [k \in 1..Len(ends) |-> SubSeq(s, FrameStart(ends, k) + 1, ends[k])]

\* the header frame, then the chunk frames order names (from 1), in the
\* order it names them
Rearranged(s, order) ==
    LET frames == Frames(s) IN
    frames[1] \o Concat([k \in 1..Len(order) |-> frames[order[k] + 1]])

\* two chunk frames change places
swap_chunks ==
    /\ Untouched
    /\ LET n == Len(ops.chunk_maps) IN
       \E i \in 1..n, j \in 1..n :
          /\ i < j
          /\ wire' = [bytes |-> Rearranged(wire.bytes,
                                   [k \in 1..n |-> IF k = i THEN j
                                                   ELSE IF k = j THEN i ELSE k]),
                      tamper |-> "swap", frame |-> i, at |-> j]
    /\ UNCHANGED <<pc, args, urandom, callers, enc, ops, dec, result>>

\* a copy of chunk frame i is put in after the first j chunk frames
duplicate_chunk ==
    /\ Untouched
    /\ LET n == Len(ops.chunk_maps) IN
       \E i \in 1..n, j \in 0..n :
          wire' = [bytes |-> Rearranged(wire.bytes,
                                [k \in 1..(n + 1) |-> IF k <= j THEN k
                                                      ELSE IF k = j + 1 THEN i
                                                      ELSE k - 1]),
                   tamper |-> "duplicate", frame |-> i, at |-> j]
    /\ UNCHANGED <<pc, args, urandom, callers, enc, ops, dec, result>>

\* chunk frame i is taken out
delete_chunk ==
    /\ Untouched
    /\ LET n == Len(ops.chunk_maps) IN
       \E i \in 1..n :
          wire' = [bytes |-> Rearranged(wire.bytes,
                                [k \in 1..(n - 1) |-> IF k < i THEN k ELSE k + 1]),
                   tamper |-> "delete", frame |-> i, at |-> 0]
    /\ UNCHANGED <<pc, args, urandom, callers, enc, ops, dec, result>>

Replace ==
    \/ forge_chunk
    \/ swap_chunks
    \/ duplicate_chunk
    \/ delete_chunk

NextReplace == Encrypt \/ Replace \/ Decrypt

SpecReplace == InitTamper /\ [][NextReplace]_vars

(***************************************************************************)
(* Several calls at once.  A call of decrypt is a record of its own: its   *)
(* position (pc), its argument (input), its local variables (dec) and what *)
(* it gave back (result).  The module has no variable a call assigns:      *)
(* FORMAT_VERSION, jack_private and jack_public are read only.  After one  *)
(* encrypt has returned, two decrypt calls on its output and a second      *)
(* encrypt call with the same arguments take their steps in any order; dec *)
(* then holds the two decrypt calls.                                       *)
(***************************************************************************)
StartCall(input, recipient_private) ==
    [pc |-> "decrypt_header", input |-> input,
     dec |-> [NoDec EXCEPT !.recipient_private = recipient_private],
     result |-> Running]

CallRaised(call, d, e) ==
    [call EXCEPT !.pc = "raised", !.dec = d, !.result = Raised(e)]

CallGoes(call, d, to) == [call EXCEPT !.pc = to, !.dec = d]

\* lines 150-157, as decrypt_header
CallHeader(call) ==
    LET r == read_framed_msgpack(call.input, call.dec.pos)
        e == IF r.err # "" THEN r.err ELSE HeaderError(r.obj)
        d == [call.dec EXCEPT
                !.pos = r.pos,
                !.reads = Append(@, ReadRecord(call.input, call.dec.pos)),
                !.header = r.obj]
    IN  IF e # "" THEN CallRaised(call, d, e) ELSE CallGoes(call, d, "decrypt_find")

\* lines 158-166, as decrypt_find_recipient
CallFindRecipient(call) ==
    LET recipients == DictGet(call.dec.header, K_recipients)
        recipient_public == crypto_scalarmult_base(call.dec.recipient_private)
        f == IF recipients.t # "arr"
             THEN [err |-> "TypeError", recipient_num |-> 0, boxed_keys |-> PyNone]
             ELSE ScanRecipients(recipients.v, recipient_public, 0)
        d == [call.dec EXCEPT !.recipient_public = recipient_public,
                              !.recipient_num = f.recipient_num,
                              !.boxed_keys = f.boxed_keys]
    IN  IF f.err # "" THEN CallRaised(call, d, f.err)
        ELSE CallGoes(call, d, "decrypt_unbox")

\* lines 167-182, as decrypt_unbox_keys
CallUnboxKeys(call) ==
    LET k == UnboxKeys(call.dec.header, call.dec.boxed_keys,
                       call.dec.recipient_num, call.dec.recipient_private)
        d == [call.dec EXCEPT !.encryption_key = k.encryption_key,
                              !.mac_group = k.mac_group,
                              !.mac_key = k.mac_key,
                              !.box_opens = @ + 1,
                              !.chunknum = 0,
                              !.output = <<>>]
    IN  IF k.err # "" THEN CallRaised(call, d, k.err)
        ELSE CallGoes(call, d, "AwaitingChunk")

\* lines 184-187, as decrypt_read_chunk
CallReadChunk(call) ==
    LET r == read_framed_msgpack(call.input, call.dec.pos)
        e == IF r.err # "" THEN r.err ELSE ChunkMapError(r.obj)
        d == [call.dec EXCEPT
                !.pos = r.pos,
                !.reads = Append(@, ReadRecord(call.input, call.dec.pos)),
                !.chunk_map = r.obj]
    IN  IF e # "" THEN CallRaised(call, d, e) ELSE CallGoes(call, d, "Verifying")

\* lines 188-196, as decrypt_check_mac
CallCheckMac(call) ==
    LET e == MacError(call.dec.chunk_map, call.dec.mac_group, call.dec.mac_key)
        d == [call.dec EXCEPT
                !.mac_checks = IF call.dec.mac_key.t = "nil" THEN @ ELSE @ + 1]
    IN  IF e # "" THEN CallRaised(call, d, e) ELSE CallGoes(call, d, "Decrypting")

\* lines 197-206, as decrypt_open_chunk
CallOpenChunk(call) ==
    LET o == OpenChunk(call.dec.chunk_map, call.dec.chunknum,
                       call.dec.encryption_key)
    IN  IF o.err # ""
        THEN CallRaised(call, [call.dec EXCEPT !.secretbox_opens = @ + 1], o.err)
        ELSE IF IsTerminator(o.msg)
        THEN CallGoes(call, [call.dec EXCEPT !.secretbox_opens = @ + 1,
                                             !.chunk = o.msg], "Done")
        ELSE CallGoes(call, [call.dec EXCEPT !.secretbox_opens = @ + 1,
                                             !.chunk = o.msg,
                                             !.output = @ \o o.msg,
                                             !.chunknum = @ + 1], "AwaitingChunk")

\* line 207, as decrypt_return
CallReturn(call) ==
    [call EXCEPT !.pc = "returned", !.result = Returned(call.dec.output)]

CallFinished(call) == call.pc \in {"returned", "raised"}

\* the next step of a call of decrypt
DecryptStep(call) ==
    CASE call.pc = "decrypt_header" -> CallHeader(call)
      [] call.pc = "decrypt_find" -> CallFindRecipient(call)
      [] call.pc = "decrypt_unbox" -> CallUnboxKeys(call)
      [] call.pc = "AwaitingChunk" -> CallReadChunk(call)
      [] call.pc = "Verifying" -> CallCheckMac(call)
      [] call.pc = "Decrypting" -> CallOpenChunk(call)
      [] call.pc = "Done" -> CallReturn(call)
      [] OTHER -> call

\* a faulty variant: the stream is one object of the module, made by the
\* first call, and every call reads at its position
CallLocalsSharedStream(calls, i) ==
    [calls[i] EXCEPT !.dec.pos = calls[1].dec.pos]

\* line 150: what call i works on is its own: its argument, its stream,
\* its local variables
CallLocals(calls, i) == calls[i]

Forked == [status |-> "forked", value |-> <<>>, error |-> ""]

\* the two decrypt calls begin, and encrypt is called once more
fork ==
    /\ Untouched
    /\ result = Running
    /\ \E first \in callers, second \in callers :
          dec' = <<StartCall(wire.bytes, first), StartCall(wire.bytes, second)>>
    /\ result' = Forked
    /\ enc' = NoEnc
    /\ ops' = NoOps
    /\ pc' = "encrypt"
    /\ UNCHANGED <<args, urandom, callers, wire>>

\* one step of decrypt call i
call_step(i) ==
    /\ result = Forked
    /\ ~CallFinished(dec[i])
    /\ dec' = [dec EXCEPT ![i] = DecryptStep(CallLocals(dec, i))]
    /\ UNCHANGED <<pc, args, urandom, callers, enc, ops, wire, result>>

first_call_step == call_step(1)

second_call_step == call_step(2)

NextConcurrent == Encrypt \/ fork \/ first_call_step \/ second_call_step

SpecConcurrent == InitTamper /\ [][NextConcurrent]_vars

(***************************************************************************)
(* Properties.                                                             *)
(***************************************************************************)
Finished == pc \in {"returned", "raised"}

\* the public key pk is one of those encrypt was given
IsListed(recipient_groups, pk) ==
    \E g \in 1..Len(recipient_groups) :
       \E i \in 1..Len(recipient_groups[g]) : recipient_groups[g][i] = pk

\* decrypt was called with the private key of a listed public key
CallerListed ==
    IF dec.recipient_private = <<>> THEN FALSE
    ELSE IsListed(args.recipient_groups,
                  crypto_scalarmult_base(dec.recipient_private))

CeilDiv(a, b) == (a + b - 1) \div b

\* C1: decrypt of what encrypt returned, called with a private key whose
\* public key is in recipient_groups, returns the message: every message
\* (the empty one too), every chunk_size >= 1, one group or several.
C1_RoundTrip ==
    (Finished /\ wire.tamper = "none" /\ CallerListed)
        => result = Returned(args.message)

\* a recipient of the second of two groups, whose private key is not the
\* one the public key was made from, has got back a message of several chunks
C1_Witness ==
    /\ pc = "returned"
    /\ wire.tamper = "none"
    /\ Len(args.recipient_groups) = 2
    /\ dec.recipient_num = 1
    /\ dec.recipient_private = Rep(33, KeyLen)
    /\ Len(args.message) > args.chunk_size
    /\ result.value = args.message

C3_AllOrNothing ==
    /\ result.status = "returned" =>
          /\ result.value = args.message
          /\ dec.chunk = <<>>
          /\ Len(dec.reads) = dec.chunknum + 2
          /\ dec.secretbox_opens = dec.chunknum + 1
          /\ dec.mac_key.t = "bin" => dec.mac_checks = dec.chunknum + 1
    /\ result.status # "returned" => result.value = <<>>
    /\ wire.tamper = "truncate" => pc \notin {"Done", "returned"}

\* the stream was cut after some chunks; decrypt had decrypted them, and
\* raised without handing them over
C3_Witness ==
    /\ pc = "raised"
    /\ wire.tamper = "truncate"
    /\ Len(dec.output) > 0
    /\ result.error = "InsufficientData"
    /\ result.value = <<>>

\* C4: decrypt stops at the first chunk that decrypts to nothing.  Whatever
\* follows the terminator frame, a listed recipient gets the message back,
\* decrypt has read the frames up to the terminator and no more, and the
\* stream is left where the terminator frame ends.
C4_StopsAtTerminator ==
    (wire.tamper = "append" /\ CallerListed)
        => /\ pc # "raised"
           /\ pc \in {"Done", "returned"} =>
                /\ dec.output = args.message
                /\ dec.pos = wire.at
                /\ Len(dec.reads) = Len(ops.chunk_maps) + 1
           /\ pc = "returned" => result = Returned(args.message)

\* bytes that are no msgpack followed the terminator, and decrypt returned
C4_Witness ==
    /\ pc = "returned"
    /\ wire.tamper = "append"
    /\ Len(wire.bytes) > dec.pos
    /\ wire.bytes[dec.pos + 1] = 193
    /\ Len(args.message) > 0

\* the frames of the stream s, read one after the other
RECURSIVE FrameObjects(_, _)
FrameObjects(s, p) ==
    IF p >= Len(s) THEN <<>>
    ELSE LET r == read_framed_msgpack(s, p) IN
         IF r.err # "" THEN <<>> ELSE <<r.obj>> \o FrameObjects(s, r.pos)

\* C5: what encrypt returns is one header frame, then
\* ceil(len(message) / chunk_size) + 1 chunk frames, and nothing else.
C5_FrameCount ==
    pc = "transit" =>
        LET ends == FrameEnds(wire.bytes, 0)
            objs == FrameObjects(wire.bytes, 0)
            n == CeilDiv(Len(args.message), args.chunk_size) + 1
        IN  /\ Len(ends) = 1 + n
            /\ ends[Len(ends)] = Len(wire.bytes)
            /\ DictHas(objs[1], K_version)
            /\ \A k \in 2..Len(objs) :
                  DictHas(objs[k], K_chunk) /\ ~DictHas(objs[k], K_version)
            /\ Len(args.message) = 0 => n = 1

\* a message of three bytes in chunks of two: a header and three chunk frames
C5_Witness ==
    /\ pc = "transit"
    /\ Len(args.message) = 3
    /\ args.chunk_size = 2
    /\ Len(FrameEnds(wire.bytes, 0)) = 4

\* C6: the key dicts hold mac_group and mac_key, and the chunk maps a
\* non-empty macs list, exactly when there is more than one group; with
\* one group or none a key dict holds encryption_key alone and macs is
\* empty, however many recipients the group has.
C6_MacsIffSeveralGroups ==
    /\ \A i \in 1..Len(ops.key_dicts) :
          LET keys == ops.key_dicts[i] IN
          /\ DictHas(keys, K_encryption_key)
          /\ IF Len(args.recipient_groups) > 1
             THEN DictHas(keys, K_mac_group) /\ DictHas(keys, K_mac_key)
                  /\ Len(keys.v) = 3
             ELSE Len(keys.v) = 1
    /\ \A c \in 1..Len(ops.chunk_maps) :
          LET macs == DictGet(ops.chunk_maps[c], K_macs) IN
          /\ macs.t = "arr"
          /\ (Len(macs.v) > 0) <=> (Len(args.recipient_groups) > 1)

\* one group of two recipients: two key dicts and the chunk maps are built
C6_Witness ==
    /\ pc = "transit"
    /\ Len(args.recipient_groups) = 1
    /\ Len(ops.key_dicts) = 2
    /\ Len(ops.chunk_maps) > 1

\* the header as decrypt read it passed the checks of lines 153-157
HeaderAccepted ==
    /\ pc \notin {"encrypt", "encrypt_groups", "encrypt_chunks", "transit",
                  "decrypt_header"}
    /\ dec.header.t = "map"
    /\ HeaderError(dec.header) = ""

\* the public key pk is the first element of an entry of the header's
\* recipients list
InHeader(header, pk) ==
    LET recipients == DictGet(header, K_recipients) IN
    \E i \in 1..Len(recipients.v) : recipients.v[i].v[1] = PyBytes(pk)

\* C7: when the public key of decrypt's private key is in no entry of the
\* header's recipients list, decrypt raises 'recipient key not found', and
\* has by then opened no box and read no frame but the header.
C7_RecipientNotFound ==
    (HeaderAccepted
        /\ ~InHeader(dec.header, crypto_scalarmult_base(dec.recipient_private)))
        => /\ pc \in {"decrypt_find", "raised"}
           /\ pc = "raised" =>
                /\ result.error = "recipient key not found"
                /\ dec.box_opens = 0
                /\ dec.secretbox_opens = 0
                /\ Len(dec.reads) = 1

\* the header lists recipients, the caller is none of them
C7_Witness ==
    /\ pc = "raised"
    /\ result.error = "recipient key not found"
    /\ Len(DictGet(dec.header, K_recipients).v) = 2
    /\ dec.recipient_num = 2
    /\ dec.box_opens = 0

\* C8: when the version field of the header is not the integer 1, decrypt
\* raises at the check of the version, before it looks for the recipient,
\* opens a box or reads a chunk.
C8_VersionRejected ==
    (/\ pc \notin {"encrypt", "encrypt_groups", "encrypt_chunks", "transit",
                   "decrypt_header"}
     /\ dec.header.t = "map"
     /\ DictHas(dec.header, K_version)
     /\ DictGet(dec.header, K_version) # PyInt(1))
        => /\ pc = "raised"
           /\ result.error = "AssertionError"
           /\ dec.recipient_public = <<>>
           /\ dec.box_opens = 0
           /\ Len(dec.reads) = 1

\* the i-th encryption operation of the call
IndexOfNonce(nonce) == BigEndian(nonce, Len(nonce) - RecipientCounterLen,
                                 RecipientCounterLen)

\* C9: in one encrypt call the recipient nonces are the nonce start
\* followed by the indices 0, 1, 2, ... and the chunk nonces the indices
\* 0, 1, 2, ..., each once, and no key is used twice with one nonce.
C9_NonceUniqueness ==
    LET boxes == ops.boxes
        first_chunk == Len(ops.key_dicts)
    IN  /\ \A i \in 1..Len(boxes) :
              /\ Len(boxes[i].nonce) = ChunkNonceLen
              /\ IF i <= first_chunk
                 THEN /\ boxes[i].prim = "box"
                      /\ SubSeq(boxes[i].nonce, 1, NoncePrefixLen)
                            = urandom.recipients_nonce_start
                      /\ IndexOfNonce(boxes[i].nonce) = i - 1
                 ELSE /\ boxes[i].prim = "secretbox"
                      /\ BigEndian(boxes[i].nonce, 0, ChunkNonceLen)
                            = i - first_chunk - 1
        /\ \A i, j \in 1..Len(boxes) :
              i < j =>
                 /\ boxes[i].prim = boxes[j].prim => boxes[i].nonce # boxes[j].nonce
                 /\ ~(boxes[i].key = boxes[j].key /\ boxes[i].nonce = boxes[j].nonce)

\* one key listed twice, so that two boxes are made with one key, a nonce
\* start of zeros, so that recipient nonces and chunk nonces are the same
\* strings, and several chunks
C9_Witness ==
    /\ pc = "transit"
    /\ Len(ops.key_dicts) = 2
    /\ ops.boxes[1].key = ops.boxes[2].key
    /\ ops.boxes[1].nonce = ops.boxes[3].nonce
    /\ Len(ops.chunk_maps) >= 2

\* the values encrypt handed to write_framed_msgpack, in order
Written ==
    <<Header(enc.sender_public, enc.recipients_nonce_start, enc.recipients)>>
        \o ops.chunk_maps

\* C10 as stated: a read of a frame takes the frame length and then
\* exactly that many bytes.
C10_ReadsDeclaredLength ==
    \A i \in 1..Len(dec.reads) :
       dec.reads[i].err = "" =>
          /\ dec.reads[i].length.t = "int"
          /\ dec.reads[i].pos = dec.reads[i].body + dec.reads[i].length.v

\* C10 as amended: a read of a frame unpacks the frame length, discards
\* it, and takes the one object that follows, whatever length was
\* declared.  A frame written by write_framed_msgpack (its length is the
\* size of the object) is read back as the value written, the stream then
\* at the start of the next frame.
C10_ReadsOneObject ==
    \A i \in 1..Len(dec.reads) :
       LET r == dec.reads[i] IN
       r.err = "" =>
          /\ SubSeq(wire.bytes, r.body + 1, r.pos) = packb(r.obj)
          /\ SubSeq(wire.bytes, r.start + 1, r.body) = packb(r.length)
          /\ r.start = IF i = 1 THEN 0 ELSE dec.reads[i - 1].pos
          /\ (wire.tamper \in {"none", "append"} \/
              (wire.tamper = "reframe" /\ wire.frame # i)) =>
                /\ r.length = PyInt(r.pos - r.body)
                /\ r.obj = Written[i]
                /\ SubSeq(wire.bytes, r.start + 1, r.pos)
                      = write_framed_msgpack(<<>>, Written[i])

\* a frame whose declared length is not the size of its object was read,
\* and the reads after it went on from the end of the object
C10_Witness ==
    /\ wire.tamper = "reframe"
    /\ wire.frame = 2
    /\ Len(dec.reads) >= 3
    /\ dec.reads[2].err = ""
    /\ dec.reads[2].length.v # dec.reads[2].pos - dec.reads[2].body
    /\ dec.reads[3].err = ""
    /\ dec.reads[3].obj = ops.chunk_maps[2]

\* C11: in a message for several groups, a chunk record made by a
\* recipient of one group (who holds encryption_key and its own mac key),
\* different from the record the sender wrote, makes the decrypt of a
\* recipient of another group fail.
C11_ForgeryDetected ==
    (/\ wire.tamper = "forge"
     /\ Finished
     /\ dec.mac_key.t = "bin"
     /\ dec.mac_group.t = "int"
     /\ dec.mac_group.v + 1 # wire.at)
        => pc = "raised"

\* a call of decrypt run alone, to its end
RECURSIVE RunAlone(_)
RunAlone(call) ==
    IF CallFinished(call) THEN call ELSE RunAlone(DecryptStep(call))

MacMatches ==
    IF dec.mac_key.t = "nil" THEN TRUE
    ELSE LET macs == DictGet(dec.chunk_map, K_macs)
             boxed_chunk == DictGet(dec.chunk_map, K_chunk)
         IN  /\ macs.t = "arr"
             /\ dec.mac_group.t = "int"
             /\ dec.mac_group.v < Len(macs.v)
             /\ boxed_chunk.t = "bin"
             /\ macs.v[dec.mac_group.v + 1]
                   = PyBytes(SubSeq(hmac_sha512(dec.mac_key.v,
                                         SubSeq(boxed_chunk.v, 1,
                                                Min(AuthenticatorLen,
                                                    Len(boxed_chunk.v)))),
                                    1, MacLen))

\* a frame holding a chunk map with both fields begins at the stream's
\* position
FrameReadable ==
    LET r == read_framed_msgpack(wire.bytes, dec.pos) IN
    /\ r.err = ""
    /\ r.obj.t = "map"
    /\ DictHas(r.obj, K_macs)
    /\ DictHas(r.obj, K_chunk)

\* the step of the chunk loop from the state pc; failed_read says whether
\* a read that fails is a step of the machine
LoopStep(failed_read) ==
    /\ pc = "decrypt_unbox" /\ pc' = "AwaitingChunk"
          => dec'.chunknum = 0 /\ dec'.output = <<>>
    /\ pc = "AwaitingChunk" =>
          \/ pc' = "AwaitingChunk"
          \/ /\ pc' = "Verifying" /\ FrameReadable
             /\ dec'.chunknum = dec.chunknum /\ dec'.output = dec.output
          \/ /\ failed_read
             /\ pc' = "raised" /\ ~FrameReadable
    /\ pc = "Verifying" =>
          \/ pc' = "Verifying"
          \/ /\ pc' = "Decrypting" /\ MacMatches
             /\ dec'.chunknum = dec.chunknum /\ dec'.output = dec.output
          \/ pc' = "raised" /\ ~MacMatches
    /\ pc = "Decrypting" =>
          \/ pc' = "Decrypting"
          \/ /\ pc' = "Done" /\ dec'.chunk = <<>>
             /\ dec'.chunknum = dec.chunknum /\ dec'.output = dec.output
          \/ /\ pc' = "AwaitingChunk" /\ dec'.chunk # <<>>
             /\ dec'.chunknum = dec.chunknum + 1
             /\ dec'.output = dec.output \o dec'.chunk
          \/ /\ pc' = "raised"
             /\ OpenChunk(dec.chunk_map, dec.chunknum, dec.encryption_key).err # ""
    /\ pc = "Done" => pc' \in {"Done", "returned"} /\ dec' = dec
    /\ pc \in {"returned", "raised"} => pc' = pc /\ dec' = dec /\ result' = result
    /\ pc' = "raised" => result'.status = "raised"

\* the nonce index is the number of chunks accepted: the frames read are
\* the header, the chunks accepted and, past AwaitingChunk, the one in hand
IndexCountsAccepted ==
    /\ pc = "AwaitingChunk" => Len(dec.reads) = dec.chunknum + 1
    /\ pc \in {"Verifying", "Decrypting", "Done"}
          => Len(dec.reads) = dec.chunknum + 2
    /\ pc \in {"AwaitingChunk", "Verifying", "Decrypting", "Done"}
          => dec.secretbox_opens = dec.chunknum + (IF pc = "Done" THEN 1 ELSE 0)

\* C13 as stated: the chunk loop makes the transitions AwaitingChunk ->
\* Verifying, Verifying -> Decrypting or Failed, Decrypting -> Done,
\* AwaitingChunk (index + 1) or Failed, and no other.
C13_ListedTransitionsOnly == [][LoopStep(FALSE)]_vars

\* C13 as amended: the loop makes those transitions and one more,
\* AwaitingChunk -> Failed when no frame with a chunk map can be read;
\* Done and Failed are terminal, and the index used for the nonce is the
\* number of non-empty chunks accepted so far.
C13_LoopStateMachine ==
    [][LoopStep(TRUE) /\ IndexCountsAccepted /\ IndexCountsAccepted']_vars

\* the loop had accepted two chunks when the stream ended: from
\* AwaitingChunk it failed
C13_Witness ==
    /\ pc = "raised"
    /\ wire.tamper = "truncate"
    /\ dec.chunknum = 2
    /\ Len(dec.reads) = 4
    /\ dec.reads[4].err # ""
    /\ dec.mac_checks = 2

\* C14: for a recipient that holds a mac key, a chunk is decrypted only
\* after the entry of macs at mac_group was found equal to the MAC the
\* recipient computes; at the first chunk where it is not, decrypt raises:
\* that chunk is not decrypted, nothing is added to the output, and no
\* later frame is read.
C14_MacBeforeDecrypt ==
    [][dec.mac_key.t = "bin" =>
          /\ pc = "Decrypting" => MacMatches
          /\ dec.secretbox_opens <= dec.mac_checks
          /\ dec'.secretbox_opens > dec.secretbox_opens
                => pc = "Decrypting" /\ MacMatches
          /\ dec'.output # dec.output => pc = "Decrypting" /\ MacMatches
          /\ (pc = "Verifying" /\ ~MacMatches /\ pc' # pc) =>
                /\ pc' = "raised"
                /\ dec'.secretbox_opens = dec.secretbox_opens
                /\ dec'.output = dec.output
                /\ dec'.reads = dec.reads
                /\ dec'.pos = dec.pos
          /\ pc = "raised" => dec' = dec /\ pc' = pc]_vars

\* the MAC of the second chunk did not match: the first chunk had been
\* decrypted, the second was not, and the frames after it were not read
C14_Witness ==
    /\ pc = "raised"
    /\ result.error = "MAC mismatch!"
    /\ dec.mac_checks = 2
    /\ dec.secretbox_opens = 1
    /\ Len(dec.reads) = 3
    /\ dec.pos < Len(wire.bytes)
    /\ Len(dec.output) > 0

\* the recipients in the order encrypt goes through them
Flattened == Concat(args.recipient_groups)

\* decrypt has found its entry in the header
EntryFound ==
    /\ pc \in {"decrypt_unbox", "AwaitingChunk", "Verifying", "Decrypting", "Done",
               "returned"}
    /\ wire.tamper = "none"

\* C15: the header's entries are in group order, then in the order within
\* the group, entry i boxed with the nonce start followed by i.  decrypt's
\* scan stops at the first entry with its public key, and opens that entry
\* with the nonce of that position: the index it derives is the index
\* encrypt used for the entry, also when a key is listed more than once.
C15_RecipientIndex ==
    /\ pc \notin {"encrypt", "encrypt_groups"} =>
          /\ Len(enc.recipients) = Len(Flattened)
          /\ \A i \in 1..Len(Flattened) :
                /\ enc.recipients[i].v[1] = PyBytes(Flattened[i])
                /\ ops.boxes[i].nonce
                      = enc.recipients_nonce_start
                           \o ToBytesBig(i - 1, RecipientCounterLen)
                /\ enc.recipients[i].v[2]
                      = PyBytes(crypto_box(packb(ops.key_dicts[i]),
                                           ops.boxes[i].nonce,
                                           args.sender_private, Flattened[i]))
    /\ EntryFound =>
          LET n == dec.recipient_num + 1 IN
          /\ n \in 1..Len(Flattened)
          /\ Flattened[n] = crypto_scalarmult_base(dec.recipient_private)
          /\ \A i \in 1..(n - 1) :
                Flattened[i] # crypto_scalarmult_base(dec.recipient_private)
          /\ dec.boxed_keys = enc.recipients[n].v[2]
          /\ RecipientNonce(DictGet(dec.header, K_nonce).v, dec.recipient_num)
                = ops.boxes[n].nonce
          /\ pc # "decrypt_unbox" =>
                /\ dec.encryption_key = DictGet(ops.key_dicts[n], K_encryption_key)
                /\ dec.mac_group = DictGet(ops.key_dicts[n], K_mac_group)
                /\ dec.mac_key = DictGet(ops.key_dicts[n], K_mac_key)

\* one public key is listed in both groups; its holder's decrypt took the
\* entry of the first group and returned the message
C15_Witness ==
    /\ pc = "returned"
    /\ wire.tamper = "none"
    /\ Len(args.recipient_groups) = 2
    /\ Len(Flattened) = 2
    /\ Flattened[1] = Flattened[2]
    /\ Len(args.recipient_groups[1]) = 1
    /\ dec.recipient_num = 0
    /\ dec.mac_group = PyInt(0)
    /\ result.value = args.message

\* the group (from 1) of the i-th recipient in encrypt's order
GroupOfEntry(recipient_groups, i) ==
    CHOOSE g \in 1..Len(recipient_groups) :
       /\ TotalLen(SubSeq(recipient_groups, 1, g - 1)) < i
       /\ i <= TotalLen(SubSeq(recipient_groups, 1, g))

\* in a message for several groups: each chunk map's macs has one entry
\* per group, in group order, entry g the first 16 bytes of the HMAC under
\* group g's mac key of the first 16 bytes of the chunk; each recipient of
\* group g gets mac_group g (from 0), group g's mac key and the one
\* encryption_key; so macs[mac_group] is made with the mac key it holds
MacsPerGroup ==
    (pc = "transit" /\ Len(args.recipient_groups) > 1) =>
        /\ Len(enc.mac_keys) = Len(args.recipient_groups)
        /\ \A g \in 1..Len(enc.mac_keys) : enc.mac_keys[g] = urandom.mac_key[g]
        /\ \A c \in 1..Len(ops.chunk_maps) :
              LET macs == DictGet(ops.chunk_maps[c], K_macs).v
                  boxed_chunk == DictGet(ops.chunk_maps[c], K_chunk).v
              IN  /\ Len(macs) = Len(args.recipient_groups)
                  /\ Len(boxed_chunk) >= AuthenticatorLen
                  /\ \A g \in 1..Len(macs) :
                        macs[g] = PyBytes(SubSeq(
                            hmac_sha512(enc.mac_keys[g],
                                        SubSeq(boxed_chunk, 1, AuthenticatorLen)),
                            1, MacLen))
        /\ Len(ops.key_dicts) = Len(Flattened)
        /\ \A i \in 1..Len(ops.key_dicts) :
              LET keys == ops.key_dicts[i]
                  g == GroupOfEntry(args.recipient_groups, i)
              IN  /\ DictGet(keys, K_encryption_key) = PyBytes(enc.encryption_key)
                  /\ DictGet(keys, K_mac_group) = PyInt(g - 1)
                  /\ DictGet(keys, K_mac_key) = PyBytes(enc.mac_keys[g])
                  /\ \A c \in 1..Len(ops.chunk_maps) :
                        DictGet(ops.chunk_maps[c], K_macs).v[
                              DictGet(keys, K_mac_group).v + 1]
                           = PyBytes(ChunkMac(DictGet(keys, K_mac_key).v,
                                 DictGet(ops.chunk_maps[c], K_chunk).v))

C17_ChunksPartition ==
    pc \in {"encrypt_chunks", "transit"} =>
        LET chunks == enc.chunks
            n == Len(chunks)
        IN  /\ n >= 1
            /\ Concat(chunks) = args.message
            /\ chunks[n] = <<>>
            /\ \A i \in 1..(n - 1) : chunks[i] # <<>>
            /\ \A i \in 1..(n - 2) : Len(chunks[i]) = args.chunk_size
            /\ n > 1 => Len(chunks[n - 1]) \in 1..args.chunk_size

\* three bytes in chunks of two: two bytes, one byte, the empty chunk
C17_Witness ==
    /\ pc = "encrypt_chunks"
    /\ args.chunk_size = 2
    /\ Len(enc.chunks) = 3
    /\ Len(enc.chunks[1]) = 2
    /\ Len(enc.chunks[2]) = 1
    /\ enc.chunks[3] = <<>>

\* the stream begins with the frames encrypt wrote, in their order
WrittenFramesFirst ==
    LET objs == FrameObjects(wire.bytes, 0) IN
    /\ Len(objs) >= Len(Written)
    /\ SubSeq(objs, 1, Len(Written)) = Written

\* C18: when the chunk frames of an encoding are put in another order,
\* doubled or taken out, the header left as it is, decrypt never returns
\* anything but the message; it returns the message when the chunk frames
\* encrypt wrote are, in their order, the first of the stream, and raises
\* when they are not.
C18_FramesBoundToPosition ==
    wire.tamper \in {"swap", "duplicate", "delete"} =>
        /\ pc = "returned" => result.value = args.message
        /\ pc \in {"Done", "returned"} => WrittenFramesFirst
        /\ (Finished /\ CallerListed) => (pc = "returned" <=> WrittenFramesFirst)
        /\ (pc = "raised" /\ CallerListed /\ dec.chunknum < Len(ops.chunk_maps)) =>
              /\ result.error \in {"CryptoError", "InsufficientData"}
              /\ SubSeq(FrameObjects(wire.bytes, 0), 2, dec.chunknum + 1)
                    = SubSeq(ops.chunk_maps, 1, dec.chunknum)

\* the first two chunk frames had changed places: the frame of chunk 1,
\* read first, did not open under the nonce of index 0
C18_Witness ==
    /\ pc = "raised"
    /\ wire.tamper = "swap"
    /\ wire.frame = 1
    /\ wire.at = 2
    /\ dec.chunknum = 0
    /\ dec.secretbox_opens = 1
    /\ dec.chunk_map = ops.chunk_maps[2]
    /\ result.error = "CryptoError"

\* the stream has no byte left at its position
Exhausted == dec.pos >= Len(wire.bytes)

\* C19: a call of decrypt comes to its end, returning or raising.  A read
\* of the chunk loop either raises or moves the stream forward by a frame,
\* never past the end of the input, and nothing else in the loop moves the
\* stream; where the stream ends before a chunk has decrypted to nothing,
\* the read raises for want of data, and decrypt neither goes on nor
\* returns.
C19_Terminates ==
    /\ [][/\ pc \in LoopPcs => loop_goes_on /\ pc' # pc
          /\ pc = "AwaitingChunk" =>
                \/ pc' = "raised" /\ result'.status = "raised"
                \/ /\ pc' = "Verifying"
                   /\ dec'.pos >= dec.pos + 2
                   /\ dec'.pos <= Len(wire.bytes)
          /\ pc \in {"Verifying", "Decrypting"} =>
                /\ dec'.pos = dec.pos
                /\ pc' \in {"Decrypting", "AwaitingChunk", "Done", "raised"}
          /\ (pc = "AwaitingChunk" /\ Exhausted) =>
                /\ pc' = "raised"
                /\ result' = Raised("InsufficientData")
          /\ pc' = "Done" => pc = "Decrypting" /\ dec'.chunk = <<>>
          /\ pc' = "returned" => pc = "Done"]_vars
    /\ (pc = "AwaitingChunk") ~> Finished

\* the terminator frame had been cut off: decrypt had decrypted the whole
\* message, found the stream at its end, and raised
C19_Witness ==
    /\ pc = "raised"
    /\ wire.tamper = "truncate"
    /\ Len(args.message) = MaxMsgLen
    /\ dec.output = args.message
    /\ dec.pos = Len(wire.bytes)
    /\ dec.reads[Len(dec.reads)].start = Len(wire.bytes)
    /\ result = Raised("InsufficientData")

=============================================================================
